---- MODULE Spec2Model ----
(***************************************************************************)
(* SmartHire interview-analysis pipeline (src/SmartHire/interviews).       *)
(*                                                                         *)
(* One interview of one candidate is followed through                      *)
(*   - the candidate's views  (StartInterviewView, SubmitVideoResponseView)*)
(*   - the Celery tasks       (process_video_response,                     *)
(*                             generate_analysis_charts)                   *)
(*   - the HR views           (EvaluateInterviewView,                      *)
(*                             SendAcceptanceEmailView,                    *)
(*                             SendRejectionEmailView).                    *)
(*                                                                         *)
(* The database runs in Django's default autocommit mode: every            *)
(* Model.save(), update_or_create() and query is its own transaction, and  *)
(* Model.save() writes EVERY column of the row from the in-memory          *)
(* instance.  Each request or task therefore carries its own copy of the   *)
(* row it read ("local"), and a save stores that copy.  An action of the   *)
(* model is one database statement together with the local computation     *)
(* and the calls to external services (which touch no row) around it.      *)
(*                                                                         *)
(* Columns no task or view of the pipeline reads back (hr_notes,           *)
(* decision_email_sent_at, question, created_at, updated_at, the emotion   *)
(* chart) are left out of the rows.  timezone.now() is the number of the   *)
(* HR request (`ticket`).  A request's or task's locals are dropped when   *)
(* it ends; an HR request keeps its operation and its answer (`result`).   *)
(***************************************************************************)
EXTENDS Integers, Sequences, FiniteSets, Bags, TLC

(* ------------------------------ bounds --------------------------------- *)
\* active InterviewQuestion rows (views.py:289)
NumQuestions == 2
\* Celery worker processes consuming the queue
NumWorkers == 2
\* HR users, one request in flight each
NumHR == 2
\* submissions the candidate's browser posts
MaxSubmits == 1
\* submissions the candidate's browser posts in a behaviour of SpecResubmit
MaxResubmits == 2

\* HR requests issued in a behaviour of Spec
MaxHROps == 1
\* accept / reject requests issued in a behaviour of SpecDecide
MaxDecisions == 2
\* exceptions raised in runs of process_video_response in a behaviour of
\* SpecRetry (the first run and max_retries retries can all fail)
MaxRunFaults == 4

\* infrastructure exceptions (database, broker) raised in a behaviour
MaxFaults == 1

(* ------------------------- program constants --------------------------- *)
\* @shared_task(bind=True, max_retries=3)
max_retries == 3

Questions == 1..NumQuestions
Workers == 1..NumWorkers
HRUsers == 1..NumHR
\* a nullable column holds None (NULL) or Some(value)
None == <<>>
Some(v) == <<v>>

\* Interview.Status (models.py:149-155)
StatusChoices ==
    {"pending", "in_progress", "completed", "evaluated", "accepted", "rejected"}

ToneNames == {"Analytical", "Confident", "Tentative", "Joy", "Fear"}

(* ------------------------------- rows ---------------------------------- *)
\* Interview.objects.create(candidate, position, status=IN_PROGRESS):
\* every other column takes its field default (models.py:169-207)
NewInterview ==
    [ status |-> "in_progress",
      tone_analysis_image |-> None,
      confidence_score |-> None,
      analytical_score |-> None,
      joy_score |-> None,
      fear_score |-> None,
      evaluated_by |-> 0,
      evaluated_at |-> 0,
      decision_email_sent |-> FALSE ]

\* the slot (interview, question_number) holds no VideoResponse row
NoRow ==
    [ exists |-> FALSE,
      video_file |-> 0,
      transcribed_text |-> "",
      analytical_tone |-> None,
      confident_tone |-> None,
      tentative_tone |-> None,
      joy_tone |-> None,
      fear_tone |-> None,
      is_processed |-> FALSE,
      processing_error |-> "" ]

\* VideoResponse created by update_or_create: field defaults (models.py:271-282)
NewRow(file) == [NoRow EXCEPT !.exists = TRUE, !.video_file = file]

(* --------------------------- external services ------------------------- *)
\* What AWS Transcribe does with one job: the status the poll loop ends on
\* ("PENDING" = still running when the loop gives up, "EXC" = boto3 raised)
\* and the transcript of a COMPLETED job.
TranscribeJobs ==
    { [status |-> "COMPLETED", text |-> "answer"],
      [status |-> "COMPLETED", text |-> ""],
      [status |-> "FAILED", text |-> ""],
      [status |-> "PENDING", text |-> ""],
      [status |-> "EXC", text |-> ""] }

\* transcribe_video: the transcript on COMPLETED, "" on FAILED, on timeout
\* and on any exception
transcribe_video(job) ==
    IF job.status = "COMPLETED" THEN job.text ELSE ""

\* What the tone analyzer answers: "EXC" (the call raised) or the
\* document_tone.tones list as a function tone_name -> score * 100.
ToneResults ==
    { [exc |-> TRUE, tones |-> <<>>],
      [exc |-> FALSE,
       tones |-> [n \in ToneNames \ {"Fear"} |-> IF n = "Analytical" THEN 40 ELSE 20]] }

\* an analyze_tone that fills a missing tone with a neutral 50
analyze_tone_neutral(res) ==
    IF res.exc
    THEN [n \in ToneNames |-> 0]
    ELSE [n \in ToneNames |->
            IF n \in DOMAIN res.tones THEN res.tones[n] ELSE 50]

\* analyze_tone: round(score * 100, 2) for the names returned, 0.0 for an
\* expected name that is missing, all 0 when the call raised
analyze_tone(res) ==
    IF res.exc
    THEN [n \in ToneNames |-> 0]
    ELSE [n \in ToneNames |->
            IF n \in DOMAIN res.tones THEN res.tones[n] ELSE 0]

(* ------------------------------- state --------------------------------- *)
VARIABLES
    created,      \* the Interview row exists
    interview,    \* the Interview row in the database
    responses,    \* question_number -> the VideoResponse row of the interview
    queue,        \* bag of Celery messages not yet taken by a worker
    workers,      \* worker -> the task it runs and that task's locals
    sub,          \* the SubmitVideoResponseView request in flight
    hr,           \* HR user -> that user's request in flight or last result;
                  \* `during`: the users whose shown request was in flight
                  \* when this one began
    nSubmits,     \* submissions begun
    nHR,          \* HR requests begun (also the clock of timezone.now())
    nFaults,      \* infrastructure exceptions raised so far
    aggTriggers,  \* calls of generate_analysis_charts.delay so far
    emails,       \* decision emails delivered so far
    poll          \* the wait loop of one transcribe_video call

vars ==
    << created, interview, responses, queue, workers, sub, hr,
       nSubmits, nHR, nFaults, aggTriggers, emails, poll >>

\* messages: process_video_response.delay(id) / retry, and
\* generate_analysis_charts.delay(interview.id)
ProcessMsg(rid, retries) == [kind |-> "process", rid |-> rid, retries |-> retries]
AggMsg == [kind |-> "agg", rid |-> 0, retries |-> 0]

\* transcribe_video before its wait loop: nothing polled yet
IdlePoll ==
    [pc |-> "idle", waited |-> 0, polls |-> 0, status |-> "none",
     text |-> "", result |-> ""]

IdleWorker ==
    [pc |-> "idle", rid |-> 0, retries |-> 0, row |-> NoRow, irow |-> NewInterview]
IdleSub ==
    [pc |-> "idle", i |-> 0, files |-> {}, media |-> 0, local |-> NewInterview]
IdleHR ==
    [pc |-> "idle", op |-> "none", ticket |-> 0, during |-> {},
     local |-> NewInterview, result |-> "none"]

Init ==
    /\ created = FALSE
    /\ interview = NewInterview
    /\ responses = [q \in Questions |-> NoRow]
    /\ queue = EmptyBag
    /\ workers = [w \in Workers |-> IdleWorker]
    /\ sub = IdleSub
    /\ hr = [h \in HRUsers |-> IdleHR]
    /\ nSubmits = 0
    /\ nHR = 0
    /\ nFaults = 0
    /\ aggTriggers = 0
    /\ emails = 0
    /\ poll = IdlePoll

Put(m) == queue (+) SetToBag({m})
Take(m) == queue (-) SetToBag({m})

(* -------------------------- candidate's views -------------------------- *)
\* StartInterviewView.post: Interview.objects.create(status=IN_PROGRESS)
StartInterview ==
    /\ ~created
    /\ created' = TRUE
    /\ interview' = NewInterview
    /\ UNCHANGED << responses, queue, workers, sub, hr, nSubmits, nHR,
                    nFaults, aggTriggers, emails, poll >>

\* SubmitVideoResponseView.post, lines 282-289: get_object_or_404 with
\* status=IN_PROGRESS; `files` are the question numbers i with a key
\* question<i> in request.FILES
SubmitBegin(files) ==
    /\ created
    /\ sub.pc = "idle"
    /\ interview.status = "in_progress"
    /\ sub' = [pc |-> "loop", i |-> 1, files |-> files,
               media |-> nSubmits + 1, local |-> interview]
    /\ nSubmits' = nSubmits + 1
    /\ UNCHANGED << created, interview, responses, queue, workers, hr, nHR,
                    nFaults, aggTriggers, emails, poll >>

\* get_or_create in place of update_or_create: an existing row keeps its file
get_or_create(row, file) ==
    IF row.exists THEN row ELSE NewRow(file)

\* VideoResponse.objects.update_or_create(interview, question_number,
\* defaults={question, video_file}): only the defaults change on an
\* existing row
update_or_create(row, file) ==
    IF row.exists THEN [row EXCEPT !.video_file = file] ELSE NewRow(file)

\* one iteration of the loop of lines 292-313, process_video_response.delay
\* succeeding
SubmitQuestion ==
    /\ sub.pc = "loop"
    /\ sub.i <= NumQuestions
    /\ IF sub.i \in sub.files
       THEN /\ responses' = [responses EXCEPT
                  ![sub.i] = update_or_create(responses[sub.i], sub.media)]
            /\ queue' = Put(ProcessMsg(sub.i, 0))
       ELSE UNCHANGED << responses, queue >>
    /\ sub' = [sub EXCEPT !.i = sub.i + 1]
    /\ UNCHANGED << created, interview, workers, hr, nSubmits, nHR, nFaults,
                    aggTriggers, emails, poll >>

\* the same iteration with .delay raising (lines 310-313): the error text
\* is saved on the row and no message is queued
SubmitQuestionNoBroker ==
    /\ sub.pc = "loop"
    /\ sub.i <= NumQuestions
    /\ sub.i \in sub.files
    /\ responses' = [responses EXCEPT
          ![sub.i] = [update_or_create(responses[sub.i], sub.media)
                        EXCEPT !.processing_error = "Async processing not available"]]
    /\ sub' = [sub EXCEPT !.i = sub.i + 1]
    /\ nFaults' = nFaults + 1
    /\ UNCHANGED << created, interview, queue, workers, hr, nSubmits, nHR,
                    aggTriggers, emails, poll >>

\* a submission that leaves the interview evaluated
SubmitStatusEvaluated(local) == [local EXCEPT !.status = "evaluated"]

\* lines 315-317: interview.status = COMPLETED; interview.save() stores the
\* instance read at line 282 with the new status
SubmitStatus(local) == [local EXCEPT !.status = "completed"]

SubmitFinish ==
    /\ sub.pc = "loop"
    /\ sub.i > NumQuestions
    /\ interview' = SubmitStatus(sub.local)
    /\ sub' = [IdleSub EXCEPT !.files = sub.files]
    /\ UNCHANGED << created, responses, queue, workers, hr, nSubmits, nHR,
                    nFaults, aggTriggers, emails, poll >>

(* ------------------------ process_video_response ----------------------- *)
\* a worker takes process_video_response(video_response_id) off the queue;
\* line 40: VideoResponse.objects.get(id=...) (rows are never deleted, the
\* row is always found)
ProcessBegin(w, m) ==
    /\ workers[w].pc = "idle"
    /\ BagIn(m, queue)
    /\ m.kind = "process"
    /\ queue' = Take(m)
    /\ workers' = [workers EXCEPT ![w] =
          [IdleWorker EXCEPT !.pc = "loaded", !.rid = m.rid,
                             !.retries = m.retries, !.row = responses[m.rid]]]
    /\ UNCHANGED << created, interview, responses, sub, hr, nSubmits, nHR,
                    nFaults, aggTriggers, emails, poll >>

\* a run that clears the error text of an earlier run when it succeeds
ProcessedClearingError(row, job, res) ==
    LET text == transcribe_video(job)
        tones == analyze_tone(res)
        r1 == [row EXCEPT !.transcribed_text = text, !.processing_error = ""]
        r2 == IF text /= ""
              THEN [r1 EXCEPT !.analytical_tone = Some(tones["Analytical"]),
                              !.confident_tone = Some(tones["Confident"]),
                              !.tentative_tone = Some(tones["Tentative"]),
                              !.joy_tone = Some(tones["Joy"]),
                              !.fear_tone = Some(tones["Fear"])]
              ELSE r1
    IN  [r2 EXCEPT !.is_processed = TRUE]

\* lines 44-56 on the instance: the transcript, the five tones when the
\* transcript is not empty (tones.get(name, 0)), is_processed = True
Processed(row, job, res) ==
    LET text == transcribe_video(job)
        tones == analyze_tone(res)
        r1 == [row EXCEPT !.transcribed_text = text]
        r2 == IF text /= ""
              THEN [r1 EXCEPT !.analytical_tone = Some(tones["Analytical"]),
                              !.confident_tone = Some(tones["Confident"]),
                              !.tentative_tone = Some(tones["Tentative"]),
                              !.joy_tone = Some(tones["Joy"]),
                              !.fear_tone = Some(tones["Fear"])]
              ELSE r1
    IN  [r2 EXCEPT !.is_processed = TRUE]

\* lines 44-57: transcription, tone analysis, video_response.save()
ProcessSave(w, job, res) ==
    /\ workers[w].pc = "loaded"
    /\ LET row == Processed(workers[w].row, job, res)
       IN  /\ responses' = [responses EXCEPT ![workers[w].rid] = row]
           /\ workers' = [workers EXCEPT ![w].pc = "saved", ![w].row = row]
    /\ UNCHANGED << created, interview, queue, sub, hr, nSubmits, nHR,
                    nFaults, aggTriggers, emails, poll >>

\* line 61: not interview.video_responses.filter(is_processed=False).exists()
all_processed(rows) ==
    ~ \E q \in Questions : rows[q].exists /\ ~rows[q].is_processed

\* a completion check made before the run has saved its row
ProcessCheckEarly(w) ==
    /\ workers[w].pc = "loaded"
    /\ IF all_processed(responses)
       THEN /\ queue' = Put(AggMsg)
            /\ aggTriggers' = aggTriggers + 1
       ELSE UNCHANGED << queue, aggTriggers >>
    /\ workers' = [workers EXCEPT ![w] = IdleWorker]
    /\ UNCHANGED << created, interview, responses, sub, hr, nSubmits, nHR,
                    nFaults, emails, poll >>

\* lines 59-68: the completion check and generate_analysis_charts.delay
ProcessCheck(w) ==
    /\ workers[w].pc = "saved"
    /\ IF all_processed(responses)
       THEN /\ queue' = Put(AggMsg)
            /\ aggTriggers' = aggTriggers + 1
       ELSE UNCHANGED << queue, aggTriggers >>
    /\ workers' = [workers EXCEPT ![w] = IdleWorker]
    /\ UNCHANGED << created, interview, responses, sub, hr, nSubmits, nHR,
                    nFaults, emails, poll >>

\* line 77, self.retry(exc=e, countdown=60): the task is queued again with
\* retries + 1 unless max_retries is reached, then the exception is raised
Retry(rid, retries) ==
    IF retries < max_retries THEN Put(ProcessMsg(rid, retries + 1)) ELSE queue

\* lines 73-77: an exception raised in the try block (by the database or
\* the broker; transcribe_video and analyze_tone swallow their own) is
\* caught, the error text is saved on the instance, the task retried.
\* `row` is the instance as the try block left it.
ProcessFail(w) ==
    /\ workers[w].pc \in {"loaded", "saved"}
    /\ responses' = [responses EXCEPT ![workers[w].rid] =
          [workers[w].row EXCEPT !.processing_error = "error"]]
    /\ queue' = Retry(workers[w].rid, workers[w].retries)
    /\ workers' = [workers EXCEPT ![w] = IdleWorker]
    /\ nFaults' = nFaults + 1
    /\ UNCHANGED << created, interview, sub, hr, nSubmits, nHR,
                    aggTriggers, emails, poll >>

(* ----------------------- generate_analysis_charts ---------------------- *)
RECURSIVE Gcd(_, _)
Gcd(a, b) == IF b = 0 THEN a ELSE Gcd(b, a % b)

RECURSIVE SumSeq(_)
SumSeq(s) == IF s = <<>> THEN 0 ELSE Head(s) + SumSeq(Tail(s))

\* the mean cut to a whole number (sum // len)
MeanTruncated(s) ==
    [num |-> SumSeq(s) \div Len(s), den |-> 1]

\* np.mean of a non-empty list of numbers, as a fraction in lowest terms
\* (the model's tones are integers, negative ones do not occur)
Mean(s) ==
    LET t == SumSeq(s)
        g == Gcd(t, Len(s))
    IN  [num |-> t \div g, den |-> Len(s) \div g]

\* `value or 0` of lines 210-214
OrZero(v) == IF v = None THEN 0 ELSE v[1]

\* interview.video_responses.order_by('question_number') as a list
RECURSIVE Ordered(_, _)
Ordered(rows, q) ==
    IF q > NumQuestions THEN <<>>
    ELSE IF rows[q].exists THEN <<rows[q]>> \o Ordered(rows, q + 1)
    ELSE Ordered(rows, q + 1)

Column(rs, f) == [k \in 1..Len(rs) |-> OrZero(rs[k][f])]

\* an aggregation that writes a new chart file on every run after the first
AggregatedNewChart(irow, rs) ==
    [irow EXCEPT !.tone_analysis_image =
                     IF irow.tone_analysis_image = None
                     THEN Some("analysis/tone.png")
                     ELSE Some("analysis/tone_again.png"),
                 !.analytical_score = Some(Mean(Column(rs, "analytical_tone"))),
                 !.confidence_score = Some(Mean(Column(rs, "confident_tone"))),
                 !.fear_score = Some(Mean(Column(rs, "fear_tone"))),
                 !.joy_score = Some(Mean(Column(rs, "joy_tone"))),
                 !.status = "completed"]

\* lines 244-252 on the instance: the chart path, the four means, status
Aggregated(irow, rs) ==
    [irow EXCEPT !.tone_analysis_image = Some("analysis/tone.png"),
                 !.analytical_score = Some(Mean(Column(rs, "analytical_tone"))),
                 !.confidence_score = Some(Mean(Column(rs, "confident_tone"))),
                 !.fear_score = Some(Mean(Column(rs, "fear_tone"))),
                 !.joy_score = Some(Mean(Column(rs, "joy_tone"))),
                 !.status = "completed"]

\* a generate_analysis_charts without the guard of lines 196-198: with no
\* response np.mean([]) is nan, written here as 0/0
AggBeginUnguarded(w) ==
    /\ workers[w].pc = "idle"
    /\ BagIn(AggMsg, queue)
    /\ queue' = Take(AggMsg)
    /\ LET rs == Ordered(responses, 1)
           nan == Some([num |-> 0, den |-> 0])
       IN  workers' = [workers EXCEPT ![w] =
              [IdleWorker EXCEPT !.pc = "charting",
                  !.irow = IF rs = <<>>
                           THEN [interview EXCEPT !.analytical_score = nan,
                                    !.confidence_score = nan,
                                    !.fear_score = nan, !.joy_score = nan,
                                    !.tone_analysis_image = Some("analysis/tone.png"),
                                    !.status = "completed"]
                           ELSE Aggregated(interview, rs)]]
    /\ UNCHANGED << created, interview, responses, sub, hr, nSubmits, nHR,
                    nFaults, aggTriggers, emails, poll >>

\* a worker takes generate_analysis_charts(interview_id); lines 193-215:
\* the interview and its responses are read; with no response the task
\* returns False; otherwise the lists are built for the chart
AggBegin(w) ==
    /\ workers[w].pc = "idle"
    /\ BagIn(AggMsg, queue)
    /\ queue' = Take(AggMsg)
    /\ LET rs == Ordered(responses, 1)
       IN  workers' = [workers EXCEPT ![w] =
              IF rs = <<>> THEN IdleWorker
              ELSE [IdleWorker EXCEPT !.pc = "charting",
                                      !.irow = Aggregated(interview, rs)]]
    /\ UNCHANGED << created, interview, responses, sub, hr, nSubmits, nHR,
                    nFaults, aggTriggers, emails, poll >>

\* lines 216-253: the chart is rendered and saved, then interview.save()
AggSave(w) ==
    /\ workers[w].pc = "charting"
    /\ interview' = workers[w].irow
    /\ workers' = [workers EXCEPT ![w] = IdleWorker]
    /\ UNCHANGED << created, responses, queue, sub, hr, nSubmits, nHR,
                    nFaults, aggTriggers, emails, poll >>

\* a failure that has already committed the chart reference
AggFailPartial(w) ==
    /\ workers[w].pc = "charting"
    /\ interview' = [interview EXCEPT
          !.tone_analysis_image = workers[w].irow.tone_analysis_image]
    /\ workers' = [workers EXCEPT ![w] = IdleWorker]
    /\ nFaults' = nFaults + 1
    /\ UNCHANGED << created, responses, queue, sub, hr, nSubmits,
                    nHR, aggTriggers, emails, poll >>

\* lines 261-263: rendering or saving raised; logged and re-raised, the
\* task ends (generate_analysis_charts has no retry), nothing is stored
AggFail(w) ==
    /\ workers[w].pc = "charting"
    /\ workers' = [workers EXCEPT ![w] = IdleWorker]
    /\ nFaults' = nFaults + 1
    /\ UNCHANGED << created, interview, responses, queue, sub, hr, nSubmits,
                    nHR, aggTriggers, emails, poll >>

(* ------------------------------- HR views ------------------------------ *)
InFlight(h) == hr[h].pc \in {"read", "marked"}

\* HRMixin lets an HR user post; line 425 / 445 / 467:
\* interview = get_object_or_404(Interview, id=interview_id)
HRBegin(h, op) ==
    /\ created
    /\ ~InFlight(h)
    /\ hr' = [g \in HRUsers |->
          IF g = h
          THEN [pc |-> "read", op |-> op, ticket |-> nHR + 1,
                during |-> {x \in HRUsers \ {h} : InFlight(x)},
                local |-> interview, result |-> "none"]
          ELSE [hr[g] EXCEPT !.during = hr[g].during \ {h}]]
    /\ nHR' = nHR + 1
    /\ UNCHANGED << created, interview, responses, queue, workers, sub,
                    nSubmits, nFaults, aggTriggers, emails, poll >>

\* the statuses the model's HR users post in the form: a forward step, a
\* decision and a step back
PostedStatuses == {"evaluated", "accepted", "in_progress"}

Evaluated(local, status, user, now) ==
    [local EXCEPT !.status = status, !.evaluated_by = user, !.evaluated_at = now]

HREvaluate(h, status) ==
    /\ hr[h].pc = "read"
    /\ hr[h].op = "evaluate"
    /\ interview' = Evaluated(hr[h].local, status, h, hr[h].ticket)
    /\ hr' = [hr EXCEPT ![h].pc = "done", ![h].local = NewInterview, ![h].ticket = 0,
                        ![h].result = "saved"]
    /\ UNCHANGED << created, responses, queue, workers, sub, nSubmits, nHR,
                    nFaults, aggTriggers, emails, poll >>

\* lines 435-436: the form is not valid (no or an unknown status posted)
HREvaluateInvalid(h) ==
    /\ hr[h].pc = "read"
    /\ hr[h].op = "evaluate"
    /\ hr' = [hr EXCEPT ![h].pc = "done", ![h].local = NewInterview, ![h].ticket = 0,
                        ![h].result = "error"]
    /\ UNCHANGED << created, interview, responses, queue, workers, sub,
                    nSubmits, nHR, nFaults, aggTriggers, emails, poll >>

\* Interview.mark_accepted / mark_rejected on the instance (models.py:220-232)
mark_accepted(local, user, now) ==
    [local EXCEPT !.status = "accepted", !.evaluated_by = user, !.evaluated_at = now]

mark_rejected(local, user, now) ==
    [local EXCEPT !.status = "rejected", !.evaluated_by = user, !.evaluated_at = now]

\* a send_* that reports success although send_mail raised
send_email_always(delivered) == TRUE

\* EmailService.send_acceptance_email / send_rejection_email: True when
\* send_mail delivered the message, False when it raised
send_email(delivered) == delivered

\* the instance after mark_accepted / mark_rejected of the view's outcome
Marked(local, op, user, now) ==
    IF op = "accept" THEN mark_accepted(local, user, now)
    ELSE mark_rejected(local, user, now)

\* SendAcceptanceEmailView.post / SendRejectionEmailView.post, lines 447-454
\* and 469-476: the email is sent; `if success:` mark_*() saves the
\* instance; else the view answers status 500 (lines 460, 482)
HRDecide(h, delivered) ==
    /\ hr[h].pc = "read"
    /\ hr[h].op \in {"accept", "reject"}
    /\ IF send_email(delivered)
       THEN /\ interview' = Marked(hr[h].local, hr[h].op, h, hr[h].ticket)
            /\ hr' = [hr EXCEPT ![h].pc = "marked", ![h].local = interview']
       ELSE /\ UNCHANGED interview
            /\ hr' = [hr EXCEPT ![h].pc = "done", ![h].local = NewInterview, ![h].ticket = 0,
                                ![h].result = "error"]
    /\ emails' = IF delivered THEN emails + 1 ELSE emails
    /\ UNCHANGED << created, responses, queue, workers, sub, nSubmits, nHR,
                    nFaults, aggTriggers, poll >>

\* lines 455-458 / 477-480: decision_email_sent = True, interview.save(),
\* JsonResponse success
HRFinish(h) ==
    /\ hr[h].pc = "marked"
    /\ interview' = [hr[h].local EXCEPT !.decision_email_sent = TRUE]
    /\ hr' = [hr EXCEPT ![h].pc = "done", ![h].local = NewInterview, ![h].ticket = 0,
                        ![h].result = "success"]
    /\ UNCHANGED << created, responses, queue, workers, sub, nSubmits, nHR,
                    nFaults, aggTriggers, emails, poll >>

(* ---------------------------- specification ---------------------------- *)
Next ==
    \/ StartInterview
    \/ \E files \in SUBSET Questions :
          nSubmits < MaxSubmits /\ SubmitBegin(files)
    \/ SubmitQuestion
    \/ nFaults < MaxFaults /\ SubmitQuestionNoBroker
    \/ SubmitFinish
    \/ \E w \in Workers : \E m \in BagToSet(queue) : ProcessBegin(w, m)
    \/ \E w \in Workers : \E job \in TranscribeJobs : \E res \in ToneResults :
          ProcessSave(w, job, res)
    \/ \E w \in Workers : ProcessCheck(w)
    \/ \E w \in Workers : nFaults < MaxFaults /\ ProcessFail(w)
    \/ \E w \in Workers : AggBegin(w)
    \/ \E w \in Workers : AggSave(w)
    \/ \E w \in Workers : nFaults < MaxFaults /\ AggFail(w)
    \/ \E h \in HRUsers : \E op \in {"evaluate", "accept", "reject"} :
          nHR < MaxHROps /\ HRBegin(h, op)
    \/ \E h \in HRUsers : \E status \in PostedStatuses : HREvaluate(h, status)
    \/ \E h \in HRUsers : HREvaluateInvalid(h)
    \/ \E h \in HRUsers : \E delivered \in BOOLEAN : HRDecide(h, delivered)
    \/ \E h \in HRUsers : HRFinish(h)

Spec == Init /\ [][Next]_vars

\* the two HR users of SpecDecide
Deciders == {1, 2}

\* Two HR users deciding on one interview: the whole lifecycle with one
\* answered question, one worker, no infrastructure fault, and up to
\* MaxDecisions accept / reject requests of the two users.
NextDecide ==
    \/ StartInterview
    \/ nSubmits < MaxSubmits /\ SubmitBegin({1})
    \/ SubmitQuestion
    \/ SubmitFinish
    \/ \E m \in BagToSet(queue) : ProcessBegin(1, m)
    \/ \E job \in TranscribeJobs : \E res \in ToneResults : ProcessSave(1, job, res)
    \/ ProcessCheck(1)
    \/ AggBegin(1)
    \/ AggSave(1)
    \/ \E h \in Deciders : \E op \in {"accept", "reject"} :
          nHR < MaxDecisions /\ HRBegin(h, op)
    \/ \E h \in Deciders : \E delivered \in BOOLEAN : HRDecide(h, delivered)
    \/ \E h \in Deciders : HRFinish(h)

SpecDecide == Init /\ [][NextDecide]_vars

\* answers of the tone analyzer that fill the responses of SpecAgg: every
\* tone with its own score in every answer
AggToneResults ==
    { [exc |-> TRUE, tones |-> <<>>],
      [exc |-> FALSE,
       tones |-> [n \in ToneNames |->
          CASE n = "Analytical" -> 10 [] n = "Confident" -> 20
            [] n = "Tentative" -> 70 [] n = "Joy" -> 35 [] OTHER -> 40]],
      [exc |-> FALSE,
       tones |-> [n \in ToneNames |->
          CASE n = "Analytical" -> 20 [] n = "Confident" -> 45
            [] n = "Tentative" -> 15 [] n = "Joy" -> 0 [] OTHER -> 80]],
      [exc |-> FALSE,
       tones |-> [n \in ToneNames \ {"Tentative"} |->
          CASE n = "Analytical" -> 30 [] n = "Confident" -> 25
            [] n = "Joy" -> 60 [] OTHER -> 5]] }

\* what a slot holds once the submission is over and its task has run:
\* no row, or a row as process_video_response saved it
AggRows ==
    {NoRow} \cup { Processed(NewRow(1), job, res) :
                      job \in TranscribeJobs, res \in AggToneResults }

\* generate_analysis_charts alone: the interview was submitted, every
\* response is processed, and the completion check queued the task twice
\* (two workers can both see every response processed).  The responses
\* can have been deleted in the admin site since (admin.py:59-60); the
\* interview then holds no scores yet or those of an earlier run.
InitAgg ==
    /\ created = TRUE
    /\ responses \in [Questions -> AggRows]
    /\ interview \in
          IF \E q \in Questions : responses[q].exists
          THEN {SubmitStatus(NewInterview)}
          ELSE {SubmitStatus(NewInterview)} \cup
               { Aggregated(SubmitStatus(NewInterview), <<row>>) :
                    row \in AggRows \ {NoRow} }
    /\ queue = SetToBag({AggMsg}) (+) SetToBag({AggMsg})
    /\ workers = [w \in Workers |-> IdleWorker]
    /\ sub = [IdleSub EXCEPT !.files = {q \in Questions : responses[q].exists}]
    /\ hr = [h \in HRUsers |-> IdleHR]
    /\ nSubmits = 1
    /\ nHR = 0
    /\ nFaults = 0
    /\ aggTriggers = 2
    /\ emails = 0
    /\ poll = IdlePoll

NextAgg ==
    \/ \E w \in Workers : AggBegin(w)
    \/ \E w \in Workers : AggSave(w)
    \/ \E w \in Workers : nFaults < MaxFaults /\ AggFail(w)

SpecAgg == InitAgg /\ [][NextAgg]_vars

\* A second submission: the candidate answers, an HR user's evaluation
\* form puts the interview back to in_progress, and the candidate posts
\* again while the tasks of the first submission may still be running.
NextResubmit ==
    \/ StartInterview
    \/ \E files \in SUBSET Questions :
          nSubmits < MaxResubmits /\ SubmitBegin(files)
    \/ SubmitQuestion
    \/ SubmitFinish
    \/ \E w \in Workers : \E m \in BagToSet(queue) : ProcessBegin(w, m)
    \/ \E w \in Workers : \E job \in TranscribeJobs : \E res \in ToneResults :
          ProcessSave(w, job, res)
    \/ \E w \in Workers : ProcessCheck(w)
    \/ \E w \in Workers : AggBegin(w)
    \/ \E w \in Workers : AggSave(w)
    \/ nHR < MaxHROps /\ interview.status = "completed" /\ HRBegin(1, "evaluate")
    \/ HREvaluate(1, "in_progress")

SpecResubmit == Init /\ [][NextResubmit]_vars

\* The pipeline with every request and task running to its end: no
\* infrastructure exception, no HR request.  A request that has begun and
\* a task that is queued or running take their next step eventually (the
\* view's loop has no wait; the Celery workers keep consuming the queue).
Running ==
    \/ SubmitQuestion
    \/ SubmitFinish
    \/ \E w \in Workers : \E m \in BagToSet(queue) : ProcessBegin(w, m)
    \/ \E w \in Workers : \E job \in TranscribeJobs : \E res \in ToneResults :
          ProcessSave(w, job, res)
    \/ \E w \in Workers : ProcessCheck(w)
    \/ \E w \in Workers : AggBegin(w)
    \/ \E w \in Workers : AggSave(w)

NextLive ==
    \/ StartInterview
    \/ \E files \in SUBSET Questions :
          nSubmits < MaxSubmits /\ SubmitBegin(files)
    \/ Running

SpecLive == Init /\ [][NextLive]_vars /\ WF_vars(Running)

\* One response whose task can fail on every run: one answered question,
\* one worker, up to MaxRunFaults exceptions caught by the handler of
\* process_video_response.
NextRetry ==
    \/ StartInterview
    \/ nSubmits < MaxSubmits /\ SubmitBegin({1})
    \/ SubmitQuestion
    \/ SubmitFinish
    \/ \E m \in BagToSet(queue) : ProcessBegin(1, m)
    \/ \E job \in TranscribeJobs : \E res \in ToneResults : ProcessSave(1, job, res)
    \/ ProcessCheck(1)
    \/ nFaults < MaxRunFaults /\ ProcessFail(1)
    \/ AggBegin(1)
    \/ AggSave(1)

SpecRetry == Init /\ [][NextRetry]_vars

\* answers of the tone analyzer beyond those of ToneResults: one whose
\* scores leave [0, 1] (score * 100 = 120 and -10)
WideToneResults ==
    ToneResults \cup
    { [exc |-> FALSE,
       tones |-> [n \in ToneNames |->
          CASE n = "Analytical" -> 120 [] n = "Confident" -> -10
            [] OTHER -> 50]] }

\* The pipeline without infrastructure exception and HR request, the tone
\* analyzer answering with any of WideToneResults.
NextTones ==
    \/ StartInterview
    \/ \E files \in SUBSET Questions :
          nSubmits < MaxSubmits /\ SubmitBegin(files)
    \/ SubmitQuestion
    \/ SubmitFinish
    \/ \E w \in Workers : \E m \in BagToSet(queue) : ProcessBegin(w, m)
    \/ \E w \in Workers : \E job \in TranscribeJobs : \E res \in WideToneResults :
          ProcessSave(w, job, res)
    \/ \E w \in Workers : ProcessCheck(w)
    \/ \E w \in Workers : AggBegin(w)
    \/ \E w \in Workers : AggSave(w)

SpecTones == Init /\ [][NextTones]_vars

\* A second submission of question 1 after HR reopened the interview,
\* with two workers and one infrastructure exception in a run: the tasks
\* queued by the two submissions work on the same VideoResponse.
NextRace ==
    \/ StartInterview
    \/ nSubmits < MaxResubmits /\ SubmitBegin({1})
    \/ SubmitQuestion
    \/ SubmitFinish
    \/ \E w \in Workers : \E m \in BagToSet(queue) : ProcessBegin(w, m)
    \/ \E w \in Workers : \E job \in TranscribeJobs : \E res \in ToneResults :
          ProcessSave(w, job, res)
    \/ \E w \in Workers : ProcessCheck(w)
    \/ \E w \in Workers : nFaults < MaxFaults /\ ProcessFail(w)
    \/ \E w \in Workers : AggBegin(w)
    \/ \E w \in Workers : AggSave(w)
    \/ nHR < MaxHROps /\ interview.status = "completed" /\ HRBegin(1, "evaluate")
    \/ HREvaluate(1, "in_progress")

SpecRace == Init /\ [][NextRace]_vars

(* ------------------- transcribe_video: the wait loop ------------------- *)
\* line 120: max_wait = 300; line 138: time.sleep(10) and waited += 10
max_wait == 300
poll_seconds == 10

\* what get_transcription_job answers at one poll: the job is not finished
\* ("PENDING": QUEUED or IN_PROGRESS), COMPLETED, FAILED, or the call raises
PollAnswers == {"PENDING", "COMPLETED", "FAILED", "EXC"}

\* the transcripts a finished job can hold
Transcripts == {"answer", ""}

\* a loop that polls once more when the bound has been reached
WaitingInclusive(waited) == waited <= max_wait

\* line 122: while waited < max_wait
Waiting(waited) == waited < max_wait

\* lines 113-121: the job is started, waited = 0; `text` is the transcript
\* the job will hold if it completes
PollStart(text) ==
    /\ poll.pc = "idle"
    /\ poll' = [IdlePoll EXCEPT !.pc = "polling", !.text = text]
    /\ UNCHANGED << created, interview, responses, queue, workers, sub, hr,
                    nSubmits, nHR, nFaults, aggTriggers, emails >>

\* lines 122-139, one iteration: get_transcription_job, return the
\* transcript on COMPLETED and "" on FAILED (and from the handler of lines
\* 144-146 when the call raises), otherwise sleep and add 10 to waited
PollStep(answer) ==
    /\ poll.pc = "polling"
    /\ Waiting(poll.waited)
    /\ poll' = IF answer = "PENDING"
               THEN [poll EXCEPT !.polls = poll.polls + 1, !.status = answer,
                                 !.waited = poll.waited + poll_seconds]
               ELSE [poll EXCEPT !.polls = poll.polls + 1, !.status = answer,
                                 !.pc = "done",
                                 !.result = IF answer = "COMPLETED"
                                            THEN poll.text ELSE ""]
    /\ UNCHANGED << created, interview, responses, queue, workers, sub, hr,
                    nSubmits, nHR, nFaults, aggTriggers, emails >>

\* lines 141-142: the loop condition is false, "timed out", return ""
PollTimeout ==
    /\ poll.pc = "polling"
    /\ ~Waiting(poll.waited)
    /\ poll' = [poll EXCEPT !.pc = "done", !.result = ""]
    /\ UNCHANGED << created, interview, responses, queue, workers, sub, hr,
                    nSubmits, nHR, nFaults, aggTriggers, emails >>

\* One call of transcribe_video with AWS configured.  An iteration that has
\* begun ends: get_transcription_job answers or raises and time.sleep
\* returns, so the loop takes its next step.
NextPoll ==
    \/ \E text \in Transcripts : PollStart(text)
    \/ \E answer \in PollAnswers : PollStep(answer)
    \/ PollTimeout

SpecPoll ==
    Init /\ [][NextPoll]_vars
         /\ WF_vars((\E answer \in PollAnswers : PollStep(answer)) \/ PollTimeout)

(* ------------------------------- claims -------------------------------- *)
\* position of a status in pending < in_progress < completed < evaluated
\* < {accepted, rejected}
Rank(s) ==
    CASE s = "pending" -> 0
      [] s = "in_progress" -> 1
      [] s = "completed" -> 2
      [] s = "evaluated" -> 3
      [] OTHER -> 4

FiveTones(row) ==
    /\ row.analytical_tone /= None
    /\ row.confident_tone /= None
    /\ row.tentative_tone /= None
    /\ row.joy_tone /= None
    /\ row.fear_tone /= None

ScoresPresent(irow) ==
    /\ irow.confidence_score /= None
    /\ irow.analytical_score /= None
    /\ irow.joy_score /= None
    /\ irow.fear_score /= None
    /\ irow.tone_analysis_image /= None

ScoresAbsent(irow) ==
    /\ irow.confidence_score = None
    /\ irow.analytical_score = None
    /\ irow.joy_score = None
    /\ irow.fear_score = None
    /\ irow.tone_analysis_image = None

\* C1: for every interleaving of the response workers of an interview,
\* generate_analysis_charts is triggered at most once for that interview.
C1_AggregationTriggeredAtMostOnce ==
    aggTriggers <= 1

\* C2: a step that triggers generate_analysis_charts is taken only when
\* every video file of the submission has a VideoResponse row with
\* is_processed = true.
C2_TriggerOnlyAfterAllSubmittedProcessed ==
    [][aggTriggers' > aggTriggers =>
          \A q \in sub.files :
              responses[q].exists /\ responses[q].is_processed]_vars

\* C3: every VideoResponse with is_processed = true has either all five
\* tone scores or a non-empty processing_error, and not both.
C3_ProcessedIsScoredXorError ==
    \A q \in Questions :
        (responses[q].exists /\ responses[q].is_processed) =>
            (FiveTones(responses[q]) /= (responses[q].processing_error /= ""))

\* the request hr[g] shows was in flight when the request hr[h] shows began
Overlap(h, g) == g \in hr[h].during

\* C4: of an accept and a reject issued concurrently on the interview, both
\* answered, at most one was answered with success (the other caller
\* observes a failure).
C4_ConcurrentDecisionsOneSuccess ==
    \A h \in HRUsers : \A g \in HRUsers \ {h} :
        ( /\ Overlap(h, g)
          /\ hr[h].pc = "done" /\ hr[g].pc = "done"
          /\ {hr[h].op, hr[g].op} = {"accept", "reject"} )
        => ~(hr[h].result = "success" /\ hr[g].result = "success")

\* C5: no step changes the interview's status to one that is earlier in
\* pending < in_progress < completed < evaluated < {accepted, rejected}.
C5_StatusNeverMovesBack ==
    [][(created /\ created') =>
          Rank(interview'.status) >= Rank(interview.status)]_vars

\* C6: while a response of the interview is unprocessed, the interview's
\* status is not completed.
C6_CompletedOnlyWhenAllProcessed ==
    (created /\ interview.status = "completed") => all_processed(responses)

\* C7: the four aggregate scores and the chart reference are all absent or
\* all present, and all present whenever the status is completed.
C7_ScoresSetWithCompleted ==
    created =>
        /\ ScoresAbsent(interview) \/ ScoresPresent(interview)
        /\ interview.status = "completed" => ScoresPresent(interview)

\* C8: a step in which an accept or reject request ends its wait for the
\* notification without a delivery leaves status, evaluated_by,
\* evaluated_at and decision_email_sent as they are and answers the caller
\* with an error.
C8_FailedNotificationNoTransition ==
    [][\A h \in HRUsers :
          ( /\ hr[h].pc = "read"
            /\ hr[h].op \in {"accept", "reject"}
            /\ hr'[h].pc /= "read"
            /\ emails' = emails )
          => /\ interview'.status = interview.status
             /\ interview'.evaluated_by = interview.evaluated_by
             /\ interview'.evaluated_at = interview.evaluated_at
             /\ interview'.decision_email_sent = interview.decision_email_sent
             /\ hr'[h].pc = "done"
             /\ hr'[h].result = "error"]_vars

\* an accept or reject was answered with an error on a submitted interview
\* that nobody has decided
C8_Witness ==
    \E h \in HRUsers :
        /\ hr[h].pc = "done"
        /\ hr[h].op \in {"accept", "reject"}
        /\ hr[h].result = "error"
        /\ interview.status = "completed"
        /\ interview.evaluated_by = 0
        /\ ~interview.decision_email_sent

\* C9: status accepted or rejected implies decision_email_sent = true.
C9_DecisionImpliesEmailSent ==
    (created /\ interview.status \in {"accepted", "rejected"}) =>
        interview.decision_email_sent

\* C10: a step in which an accept or reject request stores its outcome is
\* taken only when the interview's status is completed or evaluated.
C10_DecisionOnlyFromCompletedOrEvaluated ==
    [][\A h \in HRUsers :
          ( /\ hr[h].pc = "read"
            /\ hr[h].op \in {"accept", "reject"}
            /\ hr'[h].pc = "marked" )
          => interview.status \in {"completed", "evaluated"}]_vars


\* C11: over any sequence of accept and reject requests, sequential or
\* concurrent, at most one decision notification is delivered for the
\* interview.
C11_AtMostOneNotification ==
    emails <= 1


\* the responses of the interview, and the sum of one tone over them with
\* an absent tone counted as 0
Answered ==
    {q \in Questions : responses[q].exists}

RECURSIVE ToneTotal(_, _)
ToneTotal(S, f) ==
    IF S = {} THEN 0
    ELSE LET q == CHOOSE x \in S : TRUE
         IN  (IF responses[q][f] = None THEN 0 ELSE responses[q][f][1])
                + ToneTotal(S \ {q}, f)

\* score (a nullable fraction) is the arithmetic mean of tone f over the
\* responses of the interview
IsMeanOf(score, f) ==
    /\ score /= None
    /\ score[1].den > 0
    /\ score[1].num * Cardinality(Answered) = score[1].den * ToneTotal(Answered, f)

MeansOfResponses(irow) ==
    /\ IsMeanOf(irow.analytical_score, "analytical_tone")
    /\ IsMeanOf(irow.confidence_score, "confident_tone")
    /\ IsMeanOf(irow.joy_score, "joy_tone")
    /\ IsMeanOf(irow.fear_score, "fear_tone")

\* C12: the four scores a run of the aggregation computes are the
\* arithmetic means of analytical_tone, confident_tone, joy_tone and
\* fear_tone over all the responses of the interview, and the run stores
\* exactly these four scores on the interview.
C12_ScoresAreMeans ==
    [][\A w \in Workers :
          /\ (workers[w].pc = "idle" /\ workers'[w].pc = "charting")
                => MeansOfResponses(workers'[w].irow)
          /\ (workers[w].pc = "charting" /\ workers'[w].pc = "idle"
                                         /\ nFaults' = nFaults)
                => /\ interview'.analytical_score = workers[w].irow.analytical_score
                   /\ interview'.confidence_score = workers[w].irow.confidence_score
                   /\ interview'.joy_score = workers[w].irow.joy_score
                   /\ interview'.fear_score = workers[w].irow.fear_score]_vars

\* the aggregation ran on two responses with analytical tones 10 and 30,
\* confident tones 20 and 25, and stored the means 20 and 45/2
C12_Witness ==
    /\ Cardinality(Answered) = 2
    /\ \E q \in Answered : responses[q].analytical_tone = Some(10)
    /\ \E q \in Answered : responses[q].analytical_tone = Some(30)
    /\ interview.analytical_score = Some([num |-> 20, den |-> 1])
    /\ interview.confidence_score = Some([num |-> 45, den |-> 2])
    /\ \A w \in Workers : workers[w].pc = "idle"


\* C13: a run of the aggregation that saves on an interview that is
\* completed and already holds its scores, the responses being those of
\* the earlier run, leaves the four scores and the chart reference as they
\* were.
C13_RerunStoresSame ==
    [][\A w \in Workers :
          ( /\ workers[w].pc = "charting"
            /\ workers'[w].pc = "idle"
            /\ nFaults' = nFaults
            /\ interview.status = "completed"
            /\ ScoresPresent(interview) )
          => /\ interview'.status = "completed"
             /\ interview'.tone_analysis_image = interview.tone_analysis_image
             /\ interview'.analytical_score = interview.analytical_score
             /\ interview'.confidence_score = interview.confidence_score
             /\ interview'.joy_score = interview.joy_score
             /\ interview'.fear_score = interview.fear_score]_vars

\* both queued runs of the aggregation have saved, one after the other
C13_Witness ==
    /\ queue = EmptyBag
    /\ \A w \in Workers : workers[w].pc = "idle"
    /\ nFaults = 0
    /\ aggTriggers = 2
    /\ ScoresPresent(interview)
    /\ interview.tone_analysis_image = Some("analysis/tone.png")


\* C14: a slot (interview, question number) holds at most one VideoResponse
\* row (`responses` has one entry per question number): the step of a
\* submission that stores the file of a question leaves the slot with a
\* row holding the media of this submission, whether or not the slot held
\* a row before, and creates or changes no row of another slot.
C14_ResubmissionOverwrites ==
    [][( /\ sub.pc = "loop"
         /\ sub'.pc = "loop"
         /\ sub'.i = sub.i + 1
         /\ sub.i \in sub.files )
       => /\ responses'[sub.i].exists
          /\ responses'[sub.i].video_file = sub.media
          /\ \A q \in Questions \ {sub.i} : responses'[q] = responses[q]]_vars

\* the second submission has stored its media in a slot that already held
\* the row of the first
C14_Witness ==
    /\ nSubmits = 2
    /\ sub.pc = "loop"
    /\ sub.i = 2
    /\ 1 \in sub.files
    /\ sub.media = 2
    /\ responses[1].exists
    /\ responses[1].video_file = 2
    /\ responses[1].is_processed


\* every file of the submission has its row, processed, with a transcript
\* and the five tones
AllSucceeded ==
    /\ sub.files /= {}
    /\ \A q \in sub.files :
          /\ responses[q].exists
          /\ responses[q].is_processed
          /\ responses[q].transcribed_text /= ""
          /\ FiveTones(responses[q])

CompletedWithMeans ==
    /\ interview.status = "completed"
    /\ interview.tone_analysis_image /= None
    /\ MeansOfResponses(interview)

\* C15: from every state in which every submitted response has been
\* processed with a transcript and tones, the pipeline reaches a state in
\* which the interview has status completed, the four scores equal to the
\* means of its responses' tones, and a chart reference.
C15_SucceededLeadsToCompleted ==
    AllSucceeded ~> CompletedWithMeans


\* the responses that were transcribed; one submitted response ended with
\* an empty transcript and no tones while every other one succeeded
Succeeded ==
    {q \in Answered : responses[q].transcribed_text /= ""}

OneFailedOthersSucceeded ==
    /\ Cardinality(sub.files) >= 2
    /\ \A q \in sub.files : responses[q].exists /\ responses[q].is_processed
    /\ \E f \in sub.files :
          /\ responses[f].transcribed_text = ""
          /\ responses[f].analytical_tone = None
          /\ \A q \in sub.files \ {f} :
                responses[q].transcribed_text /= "" /\ FiveTones(responses[q])

\* score is the sum of tone f over the transcribed responses divided by
\* the number of all responses
CountsFailedAsZero(score, f) ==
    /\ score /= None
    /\ score[1].den > 0
    /\ score[1].num * Cardinality(Answered) = score[1].den * ToneTotal(Succeeded, f)

CompletedCountingZero ==
    /\ interview.status = "completed"
    /\ CountsFailedAsZero(interview.analytical_score, "analytical_tone")
    /\ CountsFailedAsZero(interview.confidence_score, "confident_tone")
    /\ CountsFailedAsZero(interview.joy_score, "joy_tone")
    /\ CountsFailedAsZero(interview.fear_score, "fear_tone")

\* C16: from every state in which one submitted response has failed for
\* good (no transcript) and the others have succeeded, the pipeline reaches
\* a state in which the interview is completed with four means to which
\* the failed response contributes zero.
C16_FailedResponseCountsZero ==
    OneFailedOthersSucceeded ~> CompletedCountingZero


\* the first run of the task of response 1 and its max_retries retries have
\* all ended in the exception handler
RetriesExhausted ==
    nFaults = max_retries + 1

\* C17: a failed run leaves an error text on the response, a task is
\* retried at most max_retries times, and once every attempt has failed the
\* response has is_processed = false and a non-empty processing_error and
\* no run of its task is left.
C17_ExhaustedRetriesLeaveUnprocessed ==
    /\ nFaults > 0 => responses[1].processing_error /= ""
    /\ \A m \in BagToSet(queue) : m.retries <= max_retries
    /\ RetriesExhausted =>
          /\ ~responses[1].is_processed
          /\ responses[1].processing_error /= ""
          /\ ~ \E m \in BagToSet(queue) : m.kind = "process"
          /\ workers[1].pc \notin {"loaded", "saved"}


\* a Transcribe job whose boto3 call raised, and a tone answer whose call
\* raised
RaisedJob ==
    [status |-> "EXC", text |-> ""]

RaisedTone ==
    [exc |-> TRUE, tones |-> <<>>]

\* C18: a run in which the transcription call or the tone call raised does
\* not settle the response as processed: the run ends with the task queued
\* again (while retries are left) and is_processed as it was.
C18_ProviderExceptionRetried ==
    [][\A w \in Workers :
          ( \/ \E res \in ToneResults : ProcessSave(w, RaisedJob, res)
            \/ \E job \in TranscribeJobs :
                  transcribe_video(job) /= "" /\ ProcessSave(w, job, RaisedTone) )
          => /\ responses'[workers[w].rid].is_processed
                   = responses[workers[w].rid].is_processed
             /\ workers[w].retries < max_retries
                   => BagIn(ProcessMsg(workers[w].rid, workers[w].retries + 1), queue')]_vars


\* C19: a step in which a submission ends and the interview leaves
\* in_progress is taken only with a VideoResponse row in every question
\* slot.
C19_AdvanceOnlyWhenAllSlotsFilled ==
    [][( /\ sub.pc = "loop"
         /\ sub'.pc = "idle"
         /\ interview.status = "in_progress"
         /\ interview'.status /= "in_progress" )
       => \A q \in Questions : responses'[q].exists]_vars


\* C20: a run whose transcription ended FAILED, timed out, raised or gave
\* an empty transcript stores the empty text, is_processed = true and five
\* tone scores that are all zero.
C20_EmptyTranscriptScoresZero ==
    [][\A w \in Workers : \A job \in TranscribeJobs : \A res \in ToneResults :
          (transcribe_video(job) = "" /\ ProcessSave(w, job, res))
          => /\ responses'[workers[w].rid].transcribed_text = ""
             /\ responses'[workers[w].rid].is_processed
             /\ responses'[workers[w].rid].analytical_tone = Some(0)
             /\ responses'[workers[w].rid].confident_tone = Some(0)
             /\ responses'[workers[w].rid].tentative_tone = Some(0)
             /\ responses'[workers[w].rid].joy_tone = Some(0)
             /\ responses'[workers[w].rid].fear_tone = Some(0)]_vars


\* the five tone columns of a row
ToneColumns ==
    {"analytical_tone", "confident_tone", "tentative_tone", "joy_tone", "fear_tone"}

\* C21: every tone score stored on a VideoResponse lies in [0, 100].
C21_TonesWithinRange ==
    \A q \in Questions : \A f \in ToneColumns :
        responses[q][f] /= None =>
            (responses[q][f][1] >= 0 /\ responses[q][f][1] <= 100)


\* the column that holds the score of a tone name (tasks.py:49-53)
ColumnOf(n) ==
    CASE n = "Analytical" -> "analytical_tone"
      [] n = "Confident" -> "confident_tone"
      [] n = "Tentative" -> "tentative_tone"
      [] n = "Joy" -> "joy_tone"
      [] OTHER -> "fear_tone"

\* C22: a run that saves with a non-empty transcript leaves all five tone
\* scores present on the response: the provider's value for every tone
\* name its result holds, 0 for every name the result omits.
C22_MissingTonesStoredAsZero ==
    [][\A w \in Workers : \A job \in TranscribeJobs : \A res \in WideToneResults :
          (transcribe_video(job) /= "" /\ ProcessSave(w, job, res))
          => /\ FiveTones(responses'[workers[w].rid])
             /\ ~res.exc => \A n \in ToneNames :
                   responses'[workers[w].rid][ColumnOf(n)] =
                      IF n \in DOMAIN res.tones THEN Some(res.tones[n]) ELSE Some(0)]_vars

\* a response was scored from a result without Fear: Fear is stored as 0
\* next to the scores the result held
C22_Witness ==
    \E q \in Questions :
        /\ responses[q].is_processed
        /\ responses[q].transcribed_text = "answer"
        /\ responses[q].analytical_tone = Some(40)
        /\ responses[q].tentative_tone = Some(20)
        /\ responses[q].fear_tone = Some(0)


\* the row of the response worker w works on is in the database as w's run
\* saved it: processed, with the run's transcript and tones
Persisted(w) ==
    LET db == responses[workers[w].rid]
        mine == workers[w].row
    IN  /\ db.is_processed
        /\ mine.is_processed
        /\ db.transcribed_text = mine.transcribed_text
        /\ \A f \in ToneColumns : db[f] = mine[f]

\* C23: a step that queues the aggregation is the completion check of a
\* run that has saved its row, and a run that ends before its save queues
\* no aggregation.
C23_CheckAfterPersistence ==
    [][/\ aggTriggers' > aggTriggers =>
             \E w \in Workers :
                /\ workers[w].pc = "saved"
                /\ workers'[w].pc = "idle"
                /\ Persisted(w)
       /\ \A w \in Workers :
             (workers[w].pc = "loaded" /\ workers'[w].pc = "idle")
                => /\ aggTriggers' = aggTriggers
                   /\ CopiesIn(AggMsg, queue') = CopiesIn(AggMsg, queue)]_vars

\* a first run failed before its save and queued nothing; the retry saved
\* and then queued the aggregation
C23_Witness ==
    /\ nFaults = 1
    /\ aggTriggers = 1
    /\ BagIn(AggMsg, queue)
    /\ responses[1].is_processed
    /\ responses[1].transcribed_text = "answer"
    /\ responses[1].processing_error = "error"
    /\ workers[1].pc = "idle"


\* C24: a run of generate_analysis_charts that starts on an interview
\* without responses ends at once: no task is left computing or saving,
\* and the interview's status, four scores and chart reference stay as
\* they were, then and ever after while there is no response.
C24_NoResponsesNoAggregation ==
    [][Answered = {} =>
          /\ \A w \in Workers : workers'[w].pc = "idle"
          /\ interview' = interview]_vars

\* both queued runs found no response; the interview still holds the
\* scores and the chart of an earlier aggregation
C24_Witness ==
    /\ Answered = {}
    /\ queue = EmptyBag
    /\ aggTriggers = 2
    /\ interview.status = "completed"
    /\ interview.analytical_score = Some([num |-> 30, den |-> 1])
    /\ interview.tone_analysis_image = Some("analysis/tone.png")


\* C25: a run of generate_analysis_charts that ends in an exception
\* leaves the interview's status, four scores and chart reference (the
\* whole row) as stored before, and queues nothing: the exception goes to
\* the caller.
C25_FailedAggregationStoresNothing ==
    [][\A w \in Workers :
          ( /\ workers[w].pc = "charting"
            /\ workers'[w].pc = "idle"
            /\ nFaults' > nFaults )
          => /\ interview' = interview
             /\ queue' = queue]_vars

\* the first run failed after computing the means of existing responses:
\* the interview holds no score and no chart reference
C25_Witness ==
    /\ nFaults = 1
    /\ Answered /= {}
    /\ CopiesIn(AggMsg, queue) = 1
    /\ \A w \in Workers : workers[w].pc = "idle"
    /\ interview.status = "completed"
    /\ ScoresAbsent(interview)
    /\ interview.tone_analysis_image = None


\* C26: a step of a run of process_video_response for response r leaves
\* every other response as it was, and of r itself changes nothing but the
\* transcript, the tone scores, is_processed and the error text.
C26_WorkerChangesOnlyItsFields ==
    [][\A w \in Workers :
          (workers[w].pc \in {"loaded", "saved"} /\ workers'[w] /= workers[w])
          => /\ \A q \in Questions \ {workers[w].rid} : responses'[q] = responses[q]
             /\ responses'[workers[w].rid].exists = responses[workers[w].rid].exists
             /\ responses'[workers[w].rid].video_file
                   = responses[workers[w].rid].video_file]_vars


\* C27: no step takes is_processed of a VideoResponse from true to false.
C27_SettlementMonotonic ==
    [][\A q \in Questions :
          responses[q].is_processed => responses'[q].is_processed]_vars


\* the providers answer a run on this row as they answered the run that
\* stored it: the same transcript, and the same five tones when there is one
SameProviderResults(row, job, res) ==
    /\ transcribe_video(job) = row.transcribed_text
    /\ transcribe_video(job) /= "" =>
          \A n \in ToneNames : row[ColumnOf(n)] = Some(analyze_tone(res)[n])

\* the columns a run of process_video_response writes are equal in two rows
SameOutcome(a, b) ==
    /\ a.transcribed_text = b.transcribed_text
    /\ \A f \in ToneColumns : a[f] = b[f]
    /\ a.is_processed = b.is_processed
    /\ a.processing_error = b.processing_error

AtRest ==
    /\ sub.pc = "idle"
    /\ queue = EmptyBag
    /\ \A w \in Workers : workers[w].pc = "idle"
    /\ \A q \in Answered : responses[q].is_processed

\* C29: the scores the aggregation has stored once every response is
\* processed and the pipeline is at rest are the means of the responses'
\* tones, whatever the order in which the workers finished: the stored
\* scores are a function of the responses alone.
C29_ScoresIndependentOfOrder ==
    (AtRest /\ interview.analytical_score /= None)
        => MeansOfResponses(interview)


\* C30: the wait loop of transcribe_video polls at most 30 times, 10
\* seconds of waiting per pending poll and never past max_wait; a call that
\* has ended returned the transcript if its last poll saw COMPLETED and the
\* empty string if it saw FAILED or if 30 polls saw the job pending; and
\* every call that began its loop ends.
C30_PollLoopTerminates ==
    /\ [](/\ poll.polls <= max_wait \div poll_seconds
          /\ poll.waited <= max_wait
          /\ poll.pc = "polling" => poll.waited = poll_seconds * poll.polls
          /\ poll.pc = "done" =>
                /\ poll.status = "COMPLETED" => poll.result = poll.text
                /\ poll.status = "FAILED" => poll.result = ""
                /\ poll.status = "PENDING" =>
                      (poll.result = "" /\ poll.polls = 30 /\ poll.waited = 300)
                /\ poll.result = transcribe_video(
                      [status |-> poll.status, text |-> poll.text]))
    /\ (poll.pc = "polling") ~> (poll.pc = "done")

\* C30 witness: a call ended by the bound: 30 polls saw the job pending
\* and the call returned the empty string although the job holds a transcript.
C30_Witness ==
    /\ poll.pc = "done"
    /\ poll.polls = 30
    /\ poll.waited = 300
    /\ poll.status = "PENDING"
    /\ poll.text = "answer"
    /\ poll.result = ""


\* the statuses of an HR evaluation or decision
HRStatuses == {"evaluated", "accepted", "rejected"}

\* C31: every step that writes the Interview row and leaves it evaluated,
\* accepted or rejected is a step of an HR request (evaluate, accept or
\* reject): no step of the candidate's views and no step of a worker task
\* does so.
C31_HRStatusesOnlyByHR ==
    [][(interview' /= interview /\ interview'.status \in HRStatuses)
          => /\ \E h \in HRUsers :
                   /\ hr[h].pc \in {"read", "marked"}
                   /\ hr'[h].pc \in {"marked", "done"}
                   /\ hr'[h].pc /= hr[h].pc
                   /\ hr[h].op \in {"evaluate", "accept", "reject"}
             /\ sub' = sub
             /\ workers' = workers
             /\ created' = created]_vars

\* C31 witness: the candidate's submission and the pipeline have run (the
\* aggregation stored scores) and an HR evaluation then set the status.
C31_Witness ==
    /\ interview.status = "evaluated"
    /\ ScoresPresent(interview)
    /\ aggTriggers >= 1
    /\ \E h \in HRUsers : hr[h].op = "evaluate" /\ hr[h].result = "saved"


\* the four scores and the chart reference are the same in two Interview rows
SameScores(a, b) ==
    /\ a.confidence_score = b.confidence_score
    /\ a.analytical_score = b.analytical_score
    /\ a.joy_score = b.joy_score
    /\ a.fear_score = b.fear_score
    /\ a.tone_analysis_image = b.tone_analysis_image

\* C32: a step of an HR request (evaluate, accept, reject) on an interview
\* that holds the four scores and the chart reference stored by the
\* aggregation leaves these five values as they are, also when the request
\* read the interview before the aggregation wrote it.
C32_HRKeepsScores ==
    [][(ScoresPresent(interview) /\ hr' /= hr) => SameScores(interview', interview)]_vars


\* C33: a submission is accepted only while the interview is in_progress,
\* and once a submission has completed (the view has answered and no
\* submission is in flight) no later submission is accepted: none begins
\* to create or overwrite responses or to queue tasks.
C33_NoSubmissionAfterCompletion ==
    [][/\ (sub.pc = "idle" /\ sub'.pc = "loop") => interview.status = "in_progress"
       /\ (nSubmits >= 1 /\ sub.pc = "idle") => sub'.pc = "idle"]_vars

====
